---- MODULE Spec2Model ----
(***************************************************************************)
(* Model of rust-worker/src/lib.rs: the ingestion pipeline handle_upload   *)
(* (decode and count, quota pre-flight, object-store puts, index upsert)   *)
(* run by concurrent request handlers against one object store (R2) and    *)
(* one index (D1).                                                         *)
(*                                                                         *)
(* Strings the code takes apart or builds (project_id, lang, filename,     *)
(* storage keys) are sequences of one-character strings; strings it only   *)
(* copies (branch, commit_sha, source_hash, metadata) are TLA+ strings.    *)
(* A JSON value is the record [kind, len, ser]: its JSON type, its number  *)
(* of members (obj.len() for an object) and the length of its              *)
(* serde_json::to_vec serialisation.  A packed_data string is the record   *)
(* of what BASE64.decode and rmp_serde::from_slice make of it.             *)
(***************************************************************************)
EXTENDS Integers, Sequences, FiniteSets, TLC

\* ------------------------------------------------------------ bounds
MaxFiles == 2        \* longest batch the request sets enumerate

\* ------------------------------------------------- program constants
MAX_KEYS_PER_FILE == 10000
MAX_TOTAL_KEYS == 200000
MAX_BYTES_PER_FILE == 5 * 1024 * 1024
MAX_TOTAL_BYTES == 50 * 1024 * 1024

\* ----------------------------------------------------- JSON payloads
JsonValue(kind, len, ser) == [kind |-> kind, len |-> len, ser |-> ser]

\* serde_json::Value::as_object: Some for a JSON object only
as_object(v) == v.kind = "object"

\* Option<String> packed_data: None, or a string described by its decodings:
\* b64 - BASE64.decode succeeds; bytes - decoded.len(); msgpack -
\* rmp_serde::from_slice succeeds; top - the decoded value; raw - its "raw"
\* member, if the value is an object that has one.
NoPacked == [some |-> FALSE]
NoRaw == [present |-> FALSE]
Raw(v) == [present |-> TRUE, value |-> v]
Packed(b64, bytes, msgpack, top, raw) ==
    [some |-> TRUE, b64 |-> b64, bytes |-> bytes, msgpack |-> msgpack,
     top |-> top, raw |-> raw]

FileToUpload(lang, filename, contents, source_hash, packed_data) ==
    [lang |-> lang, filename |-> filename, contents |-> contents,
     metadata |-> "meta", source_hash |-> source_hash,
     packed_data |-> packed_data]

UploadRequest(project_id, branch, commit_sha, files) ==
    [project_id |-> project_id, branch |-> branch, commit_sha |-> commit_sha,
     files |-> files]

\* ----------------------------------------------------- pure functions
\* count_keys_and_bytes: [ok, keys, bytes]; ok = FALSE is the Err result
CountErr == [ok |-> FALSE, keys |-> 0, bytes |-> 0]
CountOk(keys, bytes) == [ok |-> TRUE, keys |-> keys, bytes |-> bytes]

\* mutant: a payload that is not MessagePack counts as an empty one
count_keys_and_bytes_lenient(file) ==
    IF file.packed_data.some
    THEN LET packed == file.packed_data IN
         IF ~packed.b64 THEN CountErr
         ELSE IF ~packed.msgpack THEN CountOk(0, packed.bytes)
         ELSE IF packed.raw.present
              THEN IF as_object(packed.raw.value)
                   THEN CountOk(packed.raw.value.len, packed.bytes)
                   ELSE CountOk(0, packed.bytes)
              ELSE IF as_object(packed.top)
                   THEN CountOk(packed.top.len, packed.bytes)
                   ELSE CountOk(0, packed.bytes)
    ELSE IF as_object(file.contents)
         THEN CountOk(file.contents.len, file.contents.ser)
         ELSE CountOk(0, 0)

count_keys_and_bytes(file) ==
    IF file.packed_data.some
    THEN LET packed == file.packed_data IN
         IF ~packed.b64 THEN CountErr
         ELSE IF ~packed.msgpack THEN CountErr
         ELSE IF packed.raw.present
              THEN IF as_object(packed.raw.value)
                   THEN CountOk(packed.raw.value.len, packed.bytes)
                   ELSE CountOk(0, packed.bytes)
              ELSE IF as_object(packed.top)
                   THEN CountOk(packed.top.len, packed.bytes)
                   ELSE CountOk(0, packed.bytes)
    ELSE IF as_object(file.contents)
         THEN CountOk(file.contents.len, file.contents.ser)
         ELSE CountOk(0, 0)

\* filename.replace(['/', '\\'], "-")
sanitize(filename) ==
    [i \in 1..Len(filename) |->
        IF filename[i] \in {"/", "\\"} THEN "-" ELSE filename[i]]

\* format!("{}-{}-{}", project_id, lang, sanitized_filename)
generate_r2_key(project_id, lang, filename) ==
    project_id \o <<"-">> \o lang \o <<"-">> \o sanitize(filename)

\* the pre-flight loops of handle_upload: 0 when every check passes, else the
\* status of the Response::error that returns first
RECURSIVE preflight(_, _, _, _)
preflight(files, i, total_keys, total_bytes) ==
    IF i > Len(files)
    THEN IF total_keys > MAX_TOTAL_KEYS THEN 413
         ELSE IF total_bytes > MAX_TOTAL_BYTES THEN 413
         ELSE 0
    ELSE LET c == count_keys_and_bytes(files[i]) IN
         IF ~c.ok THEN 400
         ELSE IF c.keys > MAX_KEYS_PER_FILE THEN 413
         ELSE IF c.bytes > MAX_BYTES_PER_FILE THEN 413
         ELSE preflight(files, i + 1, total_keys + c.keys, total_bytes + c.bytes)

\* the bytes put to the object store: the decoded packed_data verbatim, else
\* the MessagePack of the json! object built on the server
data_to_store(file, commit_sha, now) ==
    IF file.packed_data.some
    THEN [packed |-> TRUE, bytes |-> file.packed_data.bytes]
    ELSE [packed |-> FALSE, raw |-> file.contents,
          metadataBase64 |-> file.metadata, sourceHash |-> file.source_hash,
          commitSha |-> commit_sha, uploadedAt |-> now]

custom_meta(upload_req, file, now) ==
    [project |-> upload_req.project_id, lang |-> file.lang,
     filename |-> file.filename, commitSha |-> upload_req.commit_sha,
     sourceHash |-> file.source_hash, uploadedAt |-> now]

\* mutant: a put never replaces an object that is already stored
bucket_put_if_absent(store, key, object) ==
    IF key \in DOMAIN store THEN store ELSE (key :> object) @@ store

\* bucket.put(key, data).custom_metadata(meta): the store keeps one object per key
bucket_put(store, key, object) == (key :> object) @@ store

\* the D1FileRecord pushed for files[i]; Uuid::new_v4() is <<now, i>>, fresh
\* because no two requests share now
d1_record(upload_req, i, now) ==
    LET file == upload_req.files[i] IN
    [id |-> <<now, i>>,
     project_id |-> upload_req.project_id,
     branch |-> upload_req.branch,
     commit_sha |-> upload_req.commit_sha,
     lang |-> file.lang,
     filename |-> file.filename,
     r2_key |-> generate_r2_key(upload_req.project_id, file.lang, file.filename),
     source_hash |-> file.source_hash,
     total_keys |-> IF as_object(file.contents) THEN file.contents.len ELSE 0,
     uploaded_at |-> now,
     last_updated |-> now]

d1_records(upload_req, now) ==
    [i \in 1..Len(upload_req.files) |-> d1_record(upload_req, i, now)]

\* ON CONFLICT(projectId, branch, lang, filename)
conflict(row, record) ==
    /\ row.project_id = record.project_id
    /\ row.branch = record.branch
    /\ row.lang = record.lang
    /\ row.filename = record.filename

\* mutant: INSERT OR REPLACE, the conflicting row is replaced whole
do_update_replace(row, record) == record

\* DO UPDATE SET commitSha, r2Key, sourceHash, totalKeys, lastUpdated = excluded.*
do_update(row, record) ==
    [row EXCEPT !.commit_sha = record.commit_sha,
                !.r2_key = record.r2_key,
                !.source_hash = record.source_hash,
                !.total_keys = record.total_keys,
                !.last_updated = record.last_updated]

\* mutant: a plain INSERT without a unique key
upsert_row_insert(rows, record) == rows \cup {record}

\* one row of INSERT ... VALUES ... ON CONFLICT ... DO UPDATE
upsert_row(rows, record) ==
    IF \E row \in rows : conflict(row, record)
    THEN {IF conflict(row, record) THEN do_update(row, record) ELSE row :
            row \in rows}
    ELSE rows \cup {record}

\* the statement applies its VALUES rows in order
RECURSIVE upsert_all(_, _, _)
upsert_all(rows, records, i) ==
    IF i > Len(records) THEN rows
    ELSE upsert_all(upsert_row(rows, records[i]), records, i + 1)

\* ------------------------------------------------------ request inputs
\* the concurrent runs of handle_upload, one request each
\* numbered in the order their requests arrive
Tasks == {1, 2}

Projects == {<<"p">>}
Branches == {"main", "dev"}
Commits == {"c1", "c2"}

\* {"a":"A","b":"B"} (17 bytes) and {}
SmallObject == JsonValue("object", 2, 17)
EmptyObject == JsonValue("object", 0, 2)

\* rmp_serde::to_vec of {"raw": {"k1":"v1","k2":"v2"}}, base64-encoded
PackedRaw2 ==
    Packed(TRUE, 18, TRUE, JsonValue("object", 1, 29), Raw(JsonValue("object", 2, 21)))

\* two filenames that differ only in the separator sanitize replaces
Langs == {<<"e", "n">>}
FileNames == {<<"a", "/", "b">>, <<"a", "-", "b">>}

SeqsUpTo(S, n) == UNION {[1..k -> S] : k \in 0..n}

\* the file named filename as it stands at a commit: at c1 it is sent as
\* content only, at c2 pre-packed beside an empty content field
FileAt(lang, filename, commit_sha) ==
    IF commit_sha = "c1"
    THEN FileToUpload(lang, filename, SmallObject, "h1", NoPacked)
    ELSE FileToUpload(lang, filename, EmptyObject, "h2", PackedRaw2)

Requests ==
    {UploadRequest(pr, br, c, [i \in DOMAIN names |-> FileAt(l, names[i], c)]) :
        pr \in Projects, br \in Branches, c \in Commits, l \in Langs,
        names \in SeqsUpTo(FileNames, MaxFiles)}

\* ---------------------------------------- inputs at the quota limits
MiB == 1024 * 1024
Null == JsonValue("null", 0, 0)

\* content-only payloads: objects of 10,000 and 10,001 one-letter members
\* ({"0":"x",...}), objects of exactly 5 MiB and one byte more, a 6 MiB array
KeysAtLimit == JsonValue("object", MAX_KEYS_PER_FILE, 108891)
KeysOver == JsonValue("object", MAX_KEYS_PER_FILE + 1, 108903)
BytesAtLimit == JsonValue("object", 1, MAX_BYTES_PER_FILE)
BytesOver == JsonValue("object", 1, MAX_BYTES_PER_FILE + 1)
BigArray == JsonValue("array", 3, 6 * MiB)

\* packed_data strings: not base64; base64 of bytes that are not MessagePack;
\* a top-level map of three members without "raw"; a map whose "raw" is an
\* array; a "raw" of 10,001 members; a payload of 5 MiB and one byte
PackedBadBase64 == Packed(FALSE, 0, FALSE, Null, NoRaw)
PackedBadMsgpack == Packed(TRUE, 10, FALSE, Null, NoRaw)
PackedTop3 == Packed(TRUE, 13, TRUE, JsonValue("object", 3, 25), NoRaw)
PackedRawArray ==
    Packed(TRUE, 9, TRUE, JsonValue("object", 1, 15), Raw(JsonValue("array", 3, 7)))
PackedKeysOver ==
    Packed(TRUE, 88897, TRUE, JsonValue("object", 1, 108911), Raw(KeysOver))
PackedBytesOver ==
    Packed(TRUE, MAX_BYTES_PER_FILE + 1, TRUE,
           JsonValue("object", 1, MAX_BYTES_PER_FILE), Raw(SmallObject))

QuotaPayloads ==
    {[contents |-> c, packed_data |-> NoPacked] :
        c \in {SmallObject, KeysAtLimit, KeysOver, BytesAtLimit, BytesOver, BigArray}}
    \cup
    {[contents |-> EmptyObject, packed_data |-> pd] :
        pd \in {PackedRaw2, PackedBadBase64, PackedBadMsgpack, PackedTop3,
                PackedRawArray, PackedKeysOver, PackedBytesOver}}
    \cup
    {[contents |-> KeysOver, packed_data |-> PackedRaw2]}

QuotaFiles ==
    {FileToUpload(<<"e", "n">>, <<"f">>, pl.contents, "h1", pl.packed_data) :
        pl \in QuotaPayloads}

Repeat(file, n) == [i \in 1..n |-> file]

\* batches of files within the per-file limits that reach, and pass by one
\* file, the limits on the totals
TotalsBatches ==
    LET keysFile == FileToUpload(<<"e", "n">>, <<"f">>, KeysAtLimit, "h1", NoPacked)
        bytesFile == FileToUpload(<<"e", "n">>, <<"f">>, BytesAtLimit, "h1", NoPacked)
        nKeys == MAX_TOTAL_KEYS \div MAX_KEYS_PER_FILE
        nBytes == MAX_TOTAL_BYTES \div MAX_BYTES_PER_FILE
    IN {Repeat(keysFile, nKeys), Repeat(keysFile, nKeys + 1),
        Repeat(bytesFile, nBytes), Repeat(bytesFile, nBytes + 1)}

QuotaRequests ==
    {UploadRequest(<<"p">>, "main", "c1", fs) :
        fs \in SeqsUpTo(QuotaFiles, MaxFiles) \cup TotalsBatches}

\* --------------------------------------------------------------- state
VARIABLES
    bucket,         \* TRANSLATION_BUCKET: storage key -> stored object
    index,          \* table R2File of DB: the set of its rows
    received,       \* requests received so far; the clock now is read from
    pc,             \* per task: "idle", "put", "upsert" or "done"
    upload_req,     \* per task: the request being handled
    now,            \* per task: chrono::Utc::now() read at the start
    uploaded_files, \* per task: the Vec of "lang/filename" pushed so far
    r2_keys,        \* per task: the Vec of storage keys pushed so far
    status,         \* per task: the response status, 0 while running
    calls,          \* per task: the store, index and cache calls the request issued
    last_put,       \* storage key -> now of the request whose put came last
    last_upsert,    \* {project, branch, lang, filename} -> now of the last upsert
    call            \* the pure function applied on its own: arguments and result

vars == <<bucket, index, received, pc, upload_req, now, uploaded_files,
          r2_keys, status, calls, last_put, last_upsert, call>>

NoRequest == UploadRequest(<<>>, "", "", <<>>)
\* handle_upload writes no cache projection: cache_writes is never raised
NoCalls == [puts |-> 0, upserts |-> 0, cache_writes |-> 0]
Empty == <<>>
NoCall == [op |-> "none"]

Init ==
    /\ bucket = Empty
    /\ index = {}
    /\ received = 0
    /\ pc = [t \in Tasks |-> "idle"]
    /\ upload_req = [t \in Tasks |-> NoRequest]
    /\ now = [t \in Tasks |-> 0]
    /\ uploaded_files = [t \in Tasks |-> <<>>]
    /\ r2_keys = [t \in Tasks |-> <<>>]
    /\ status = [t \in Tasks |-> 0]
    /\ calls = [t \in Tasks |-> NoCalls]
    /\ last_put = Empty
    /\ last_upsert = Empty
    /\ call = NoCall

\* mutant: the upsert is issued once the last put is started
after_puts_early(files, n) == IF n + 1 >= Len(files) THEN "upsert" ELSE "put"

\* where handle_upload stands once n of the files are put
after_puts(files, n) == IF n >= Len(files) THEN "upsert" ELSE "put"

\* req.json(), the bindings, now and the pre-flight loops: a task receives
\* its request r and either answers 400/413 or goes on to the puts
Receive(t, r) ==
    /\ pc[t] = "idle"
    /\ received = t - 1
    /\ received' = received + 1
    /\ upload_req' = [upload_req EXCEPT ![t] = r]
    /\ now' = [now EXCEPT ![t] = received + 1]
    /\ uploaded_files' = [uploaded_files EXCEPT ![t] = <<>>]
    /\ r2_keys' = [r2_keys EXCEPT ![t] = <<>>]
    /\ calls' = [calls EXCEPT ![t] = NoCalls]
    /\ LET rejected == preflight(r.files, 1, 0, 0) IN
       IF rejected # 0
       THEN /\ pc' = [pc EXCEPT ![t] = "done"]
            /\ status' = [status EXCEPT ![t] = rejected]
       ELSE /\ pc' = [pc EXCEPT ![t] = after_puts(r.files, 0)]
            /\ status' = [status EXCEPT ![t] = 0]
    /\ UNCHANGED <<call, bucket, index, last_put, last_upsert>>

\* one iteration of the upload loop whose bucket.put succeeds
PutOk(t) ==
    /\ pc[t] = "put"
    /\ LET r == upload_req[t]
           i == Len(uploaded_files[t]) + 1
           file == r.files[i]
           r2_key == generate_r2_key(r.project_id, file.lang, file.filename)
           object == [data |-> data_to_store(file, r.commit_sha, now[t]),
                      custom_meta |-> custom_meta(r, file, now[t])]
       IN /\ bucket' = bucket_put(bucket, r2_key, object)
          /\ last_put' = (r2_key :> now[t]) @@ last_put
          /\ uploaded_files' = [uploaded_files EXCEPT
                                  ![t] = Append(@, file.lang \o <<"/">> \o file.filename)]
          /\ r2_keys' = [r2_keys EXCEPT ![t] = Append(@, r2_key)]
          /\ pc' = [pc EXCEPT ![t] = after_puts(r.files, i)]
    /\ calls' = [calls EXCEPT ![t].puts = @ + 1]
    /\ UNCHANGED <<call, index, received, upload_req, now, status, last_upsert>>

\* mutant: a failed put deletes the objects the request has stored
PutFail_rollback(t) ==
    /\ pc[t] = "put"
    /\ pc' = [pc EXCEPT ![t] = "done"]
    /\ status' = [status EXCEPT ![t] = 500]
    /\ calls' = [calls EXCEPT ![t].puts = @ + 1]
    /\ bucket' = [k \in DOMAIN bucket \ {r2_keys[t][i] : i \in 1..Len(r2_keys[t])}
                    |-> bucket[k]]
    /\ UNCHANGED <<call, index, received, upload_req, now, uploaded_files,
                   r2_keys, last_put, last_upsert>>

\* bucket.put(...).execute().await? fails: the error leaves handle_upload
PutFail(t) ==
    /\ pc[t] = "put"
    /\ pc' = [pc EXCEPT ![t] = "done"]
    /\ status' = [status EXCEPT ![t] = 500]
    /\ calls' = [calls EXCEPT ![t].puts = @ + 1]
    /\ UNCHANGED <<call, bucket, index, received, upload_req, now, uploaded_files,
                   r2_keys, last_put, last_upsert>>

\* the batch INSERT ... ON CONFLICT runs; with no file the statement has no
\* VALUES row and D1 cannot run it
UpsertOk(t) ==
    /\ pc[t] = "upsert"
    /\ Len(upload_req[t].files) > 0
    /\ LET records == d1_records(upload_req[t], now[t]) IN
       /\ index' = upsert_all(index, records, 1)
       /\ last_upsert' =
            [k \in {<<rec.project_id, rec.branch, rec.lang, rec.filename>> :
                      rec \in {records[i] : i \in 1..Len(records)}}
               |-> now[t]] @@ last_upsert
    /\ pc' = [pc EXCEPT ![t] = "done"]
    /\ status' = [status EXCEPT ![t] = 200]
    /\ calls' = [calls EXCEPT ![t].upserts = @ + 1]
    /\ UNCHANGED <<call, bucket, received, upload_req, now, uploaded_files, r2_keys,
                   last_put>>

\* mutant: the failing statement has already applied its first VALUES row
UpsertFail_partial(t) ==
    /\ pc[t] = "upsert"
    /\ pc' = [pc EXCEPT ![t] = "done"]
    /\ status' = [status EXCEPT ![t] = 500]
    /\ calls' = [calls EXCEPT ![t].upserts = @ + 1]
    /\ index' = IF Len(upload_req[t].files) = 0 THEN index
                ELSE upsert_row(index, d1_record(upload_req[t], 1, now[t]))
    /\ UNCHANGED <<call, bucket, received, upload_req, now, uploaded_files,
                   r2_keys, last_put, last_upsert>>

\* db.prepare(&sql).run().await? fails: the statement changes no row
UpsertFail(t) ==
    /\ pc[t] = "upsert"
    /\ pc' = [pc EXCEPT ![t] = "done"]
    /\ status' = [status EXCEPT ![t] = 500]
    /\ calls' = [calls EXCEPT ![t].upserts = @ + 1]
    /\ UNCHANGED <<call, bucket, index, received, upload_req, now, uploaded_files,
                   r2_keys, last_put, last_upsert>>

Next ==
    \E t \in Tasks :
        \/ \E r \in Requests : Receive(t, r)
        \/ PutOk(t)
        \/ PutFail(t)
        \/ UpsertOk(t)
        \/ UpsertFail(t)

Spec == Init /\ [][Next]_vars

\* no upload is in progress: the state the pure functions are applied in
NoUploads ==
    /\ bucket = Empty
    /\ index = {}
    /\ received = 0
    /\ pc = [t \in Tasks |-> "idle"]
    /\ upload_req = [t \in Tasks |-> NoRequest]
    /\ now = [t \in Tasks |-> 0]
    /\ uploaded_files = [t \in Tasks |-> <<>>]
    /\ r2_keys = [t \in Tasks |-> <<>>]
    /\ status = [t \in Tasks |-> 0]
    /\ calls = [t \in Tasks |-> NoCalls]
    /\ last_put = Empty
    /\ last_upsert = Empty

uploads == <<bucket, index, received, pc, upload_req, now, uploaded_files,
             r2_keys, status, calls, last_put, last_upsert>>

\* one request at the quota limits, handled alone
NextQuota ==
    \/ \E r \in QuotaRequests : Receive(1, r)
    \/ PutOk(1)
    \/ PutFail(1)
    \/ UpsertOk(1)
    \/ UpsertFail(1)

SpecQuota == Init /\ [][NextQuota]_vars

\* ======================================================== the claims
\* what a claim means by a file's payload, key count and byte size
malformed(file) ==
    /\ file.packed_data.some
    /\ ~(file.packed_data.b64 /\ file.packed_data.msgpack)

payload_keys(file) ==
    IF file.packed_data.some
    THEN IF file.packed_data.raw.present
         THEN IF file.packed_data.raw.value.kind = "object"
              THEN file.packed_data.raw.value.len ELSE 0
         ELSE IF file.packed_data.top.kind = "object"
              THEN file.packed_data.top.len ELSE 0
    ELSE IF file.contents.kind = "object" THEN file.contents.len ELSE 0

payload_bytes(file) ==
    IF file.packed_data.some THEN file.packed_data.bytes ELSE file.contents.ser

over_file_quota(file) ==
    /\ ~malformed(file)
    /\ \/ payload_keys(file) > MAX_KEYS_PER_FILE
       \/ payload_bytes(file) > MAX_BYTES_PER_FILE

RECURSIVE sum_keys(_, _)
sum_keys(files, n) ==
    IF n = 0 THEN 0 ELSE sum_keys(files, n - 1) + payload_keys(files[n])

RECURSIVE sum_bytes(_, _)
sum_bytes(files, n) ==
    IF n = 0 THEN 0 ELSE sum_bytes(files, n - 1) + payload_bytes(files[n])

over_total_quota(files) ==
    /\ \A i \in 1..Len(files) : ~malformed(files[i])
    /\ \/ sum_keys(files, Len(files)) > MAX_TOTAL_KEYS
       \/ sum_bytes(files, Len(files)) > MAX_TOTAL_BYTES

exceeds_quota(files) ==
    \/ \E i \in 1..Len(files) : over_file_quota(files[i])
    \/ over_total_quota(files)

has_malformed(files) == \E i \in 1..Len(files) : malformed(files[i])

first_malformed(files) ==
    CHOOSE i \in 1..Len(files) :
        malformed(files[i]) /\ \A j \in 1..(i - 1) : ~malformed(files[j])

rejected_without_writes(t, code) ==
    /\ pc[t] = "done"
    /\ status[t] = code
    /\ calls[t] = NoCalls

\* C1 (as claimed): a request in which some file has more than 10,000 keys
\* or more than 5 MiB of bytes, or whose totals exceed 200,000 keys or
\* 50 MiB, is answered 413 with no object-store put and no index upsert.
C1_QuotaRejectsWithoutWrites ==
    \A t \in Tasks :
        (pc[t] # "idle" /\ exceeds_quota(upload_req[t].files))
            => rejected_without_writes(t, 413)

\* C2 (as claimed): a request with a malformed pre-packed payload on any of
\* its files is answered 400 with no put and no upsert.
C2_MalformedIs400 ==
    \A t \in Tasks :
        (pc[t] # "idle" /\ has_malformed(upload_req[t].files))
            => rejected_without_writes(t, 400)

\* C2 (amended): a request with a malformed pre-packed payload on any of its
\* files is rejected with no put and no upsert; the status is 400 unless a
\* file before the first malformed one exceeds a per-file limit, and 413
\* only in that case.
C2_MalformedRejectedWithoutWrites ==
    \A t \in Tasks :
        (pc[t] # "idle" /\ has_malformed(upload_req[t].files))
            => LET files == upload_req[t].files
                   earlierOver ==
                       \E j \in 1..(first_malformed(files) - 1) :
                           over_file_quota(files[j])
               IN /\ pc[t] = "done"
                  /\ calls[t] = NoCalls
                  /\ status[t] \in {400, 413}
                  /\ ~earlierOver => status[t] = 400

\* a batch whose second file is malformed and whose first is sound was rejected
C2_Witness ==
    \E t \in Tasks :
        /\ pc[t] = "done"
        /\ Len(upload_req[t].files) >= 2
        /\ ~malformed(upload_req[t].files[1])
        /\ ~over_file_quota(upload_req[t].files[1])
        /\ malformed(upload_req[t].files[2])
        /\ status[t] = 400

\* the index row request t wrote for its file i
row_of(t, i) ==
    {row \in index :
        /\ row.project_id = upload_req[t].project_id
        /\ row.branch = upload_req[t].branch
        /\ row.lang = upload_req[t].files[i].lang
        /\ row.filename = upload_req[t].files[i].filename
        /\ row.last_updated = now[t]}

\* the last file of the batch that names the tuple of file i
last_of_tuple(files, i) ==
    \A j \in (i + 1)..Len(files) :
        files[j].lang # files[i].lang \/ files[j].filename # files[i].filename

\* C10 (as claimed): the key count in the index row of a file that carries a
\* pre-packed payload is the key count of the decoded payload, the one the
\* quota was enforced on.
C10_IndexKeyCountFromPacked ==
    \A t \in Tasks :
        (pc[t] = "done" /\ status[t] = 200) =>
            \A i \in 1..Len(upload_req[t].files) :
                LET file == upload_req[t].files[i] IN
                (file.packed_data.some /\ last_of_tuple(upload_req[t].files, i)) =>
                    \A row \in row_of(t, i) :
                        row.total_keys = payload_keys(file)

\* ------------------------------------------- claims on store and index
tuple_of(row) == <<row.project_id, row.branch, row.lang, row.filename>>

request_tuple(t, i) ==
    <<upload_req[t].project_id, upload_req[t].branch,
      upload_req[t].files[i].lang, upload_req[t].files[i].filename>>

keys_of(t) == {r2_keys[t][i] : i \in 1..Len(r2_keys[t])}

\* the task whose request read the clock at n
task_at(n) == CHOOSE t \in Tasks : now[t] = n

\* C3: the index holds at most one row per {project, branch, language,
\* filename}, whatever was ingested, and a request that ingests a tuple the
\* index already holds puts the object under the storage key the row names.
C3_IndexUnique ==
    /\ \A r1 \in index : \A r2 \in index :
           tuple_of(r1) = tuple_of(r2) => r1 = r2
    /\ \A t \in Tasks : \A i \in 1..Len(r2_keys[t]) : \A row \in index :
           tuple_of(row) = request_tuple(t, i) => r2_keys[t][i] = row.r2_key

\* the second request names one tuple twice and re-ingested, under another
\* commit, a tuple whose row the first request created
C3_Witness ==
    /\ status[2] = 200
    /\ Len(upload_req[2].files) = 2
    /\ request_tuple(2, 1) = request_tuple(2, 2)
    /\ \E row \in index :
           /\ tuple_of(row) = request_tuple(2, 1)
           /\ row.uploaded_at = now[1]
           /\ row.commit_sha = upload_req[2].commit_sha
           /\ upload_req[1].commit_sha # upload_req[2].commit_sha

\* C4: a request issues its index upsert only after the put of every one of
\* its files has succeeded, so every index row names a storage key under
\* which an object is stored.
C4_IndexAfterObjects ==
    /\ \A row \in index : row.r2_key \in DOMAIN bucket
    /\ \A t \in Tasks :
           calls[t].upserts > 0 =>
               /\ Len(r2_keys[t]) = Len(upload_req[t].files)
               /\ calls[t].puts = Len(upload_req[t].files)
               /\ keys_of(t) \subseteq DOMAIN bucket

\* a batch of two files was put and then indexed
C4_Witness ==
    \E t \in Tasks :
        /\ status[t] = 200
        /\ Len(upload_req[t].files) = 2
        /\ \E row \in index : row.last_updated = now[t]

\* C5: when the put of the k-th file fails the request ends in an error, the
\* objects of files 1..k-1 stay stored, no further put is attempted and no
\* row of the batch is upserted.
C5_PutFailureAborts ==
    \A t \in Tasks :
        calls[t].puts > Len(r2_keys[t]) =>
            /\ pc[t] = "done"
            /\ status[t] = 500
            /\ calls[t].puts = Len(r2_keys[t]) + 1
            /\ calls[t].upserts = 0
            /\ \A i \in 1..Len(r2_keys[t]) :
                   /\ r2_keys[t][i] \in DOMAIN bucket
                   /\ r2_keys[t][i] =
                          generate_r2_key(upload_req[t].project_id,
                                          upload_req[t].files[i].lang,
                                          upload_req[t].files[i].filename)
            /\ \A row \in index : row.last_updated # now[t]

\* the put of the second file of a batch failed after the first was stored
C5_Witness ==
    \E t \in Tasks :
        /\ pc[t] = "done"
        /\ status[t] = 500
        /\ calls[t].puts = 2
        /\ Len(r2_keys[t]) = 1
        /\ r2_keys[t][1] \in DOMAIN bucket

upsert_failed(t) ==
    /\ pc[t] = "done"
    /\ status[t] = 500
    /\ calls[t].upserts = 1

\* C6: when the upsert fails the request ends in an error with every object
\* of the batch stored and no index row written by it; a retry of the same
\* request that succeeds leaves exactly one row per file, carrying the
\* retried commit and storage key, and the same set of object keys.
C6_UpsertFailureThenRetry ==
    \A t \in Tasks :
        upsert_failed(t) =>
            /\ Len(r2_keys[t]) = Len(upload_req[t].files)
            /\ keys_of(t) \subseteq DOMAIN bucket
            /\ \A row \in index :
                   row.last_updated # now[t] /\ row.uploaded_at # now[t]
            /\ \A u \in Tasks \ {t} :
                   (/\ pc[u] = "done"
                    /\ status[u] = 200
                    /\ upload_req[u] = upload_req[t]
                    /\ now[u] > now[t]) =>
                       /\ \A i \in 1..Len(upload_req[u].files) :
                              LET rows == {row \in index :
                                             tuple_of(row) = request_tuple(u, i)}
                              IN /\ Cardinality(rows) = 1
                                 /\ \A row \in rows :
                                        /\ row.commit_sha = upload_req[u].commit_sha
                                        /\ row.r2_key = r2_keys[u][i]
                       /\ keys_of(u) = keys_of(t)
                       /\ DOMAIN bucket = keys_of(t)

\* the first request failed at its upsert and its retry succeeded
C6_Witness ==
    /\ upsert_failed(1)
    /\ Len(upload_req[1].files) = 2
    /\ upload_req[2] = upload_req[1]
    /\ pc[2] = "done"
    /\ status[2] = 200

\* C7: an upsert that meets an existing row overwrites its commit reference,
\* storage key, source fingerprint, key count and updated timestamp with the
\* request's values and keeps the row's id and creation timestamp.
C7_UpdateFrame ==
    [][\A t \in Tasks :
          (pc[t] = "upsert" /\ status'[t] = 200) =>
              LET records == d1_records(upload_req[t], now[t]) IN
              \A row \in index : \A i \in 1..Len(records) :
                  (conflict(row, records[i])
                      /\ last_of_tuple(upload_req[t].files, i)) =>
                      [id |-> row.id,
                       project_id |-> row.project_id,
                       branch |-> row.branch,
                       lang |-> row.lang,
                       filename |-> row.filename,
                       uploaded_at |-> row.uploaded_at,
                       commit_sha |-> upload_req[t].commit_sha,
                       r2_key |-> records[i].r2_key,
                       source_hash |-> upload_req[t].files[i].source_hash,
                       total_keys |-> records[i].total_keys,
                       last_updated |-> now[t]] \in index']_vars

\* a row lives on under the id of the request that created it with the
\* fingerprint and key count of a later request
C7_Witness ==
    \E row \in index :
        /\ row.id[1] # row.last_updated
        /\ row.uploaded_at = row.id[1]
        /\ row.source_hash # upload_req[task_at(row.id[1])].files[row.id[2]].source_hash
        /\ row.source_hash = "h2"
        /\ row.total_keys = 0

\* C8: concurrent requests for one tuple do not reject or block each other;
\* once all have completed, each stored object is the one of the request
\* whose put came last and each index row carries the values of the request
\* whose upsert came last.
C8_LastWriteWins ==
    /\ \A t \in Tasks :
           /\ pc[t] = "put" => ENABLED PutOk(t)
           /\ (pc[t] = "upsert" /\ Len(upload_req[t].files) > 0)
                  => ENABLED UpsertOk(t)
           /\ status[t] \notin {400, 413}
    /\ (\A t \in Tasks : pc[t] = "done") =>
           /\ \A key \in DOMAIN bucket :
                  LET t == task_at(last_put[key]) IN
                  /\ bucket[key].custom_meta.uploadedAt = now[t]
                  /\ bucket[key].custom_meta.commitSha = upload_req[t].commit_sha
                  /\ key \in keys_of(t)
           /\ \A row \in index :
                  LET t == task_at(last_upsert[tuple_of(row)]) IN
                  /\ row.last_updated = now[t]
                  /\ row.commit_sha = upload_req[t].commit_sha
                  /\ row.branch = upload_req[t].branch

\* both requests ingested one tuple under different commits and succeeded;
\* the object is the first request's and the row the second's
C8_Witness ==
    /\ status[1] = 200
    /\ status[2] = 200
    /\ upload_req[1].commit_sha # upload_req[2].commit_sha
    /\ \E row \in index :
           /\ \E i \in 1..Len(upload_req[1].files) :
                  request_tuple(1, i) = tuple_of(row)
           /\ \E j \in 1..Len(upload_req[2].files) :
                  request_tuple(2, j) = tuple_of(row)
           /\ last_put[row.r2_key] = now[1]
           /\ last_upsert[tuple_of(row)] = now[2]

\* C9 (as claimed): after each successful put a CacheMetadataObject for the
\* file is written (a write that may fail without changing the outcome).
C9_CacheWrittenAfterEachPut ==
    \A t \in Tasks : calls[t].cache_writes >= Len(r2_keys[t])

\* C11 (as claimed): after a successful ingest of a batch whose files have
\* pairwise distinct (language, filename), the storage keys returned are
\* pairwise distinct, so no file of the batch overwrites another's object.
C11_DistinctFilesDistinctKeys ==
    \A t \in Tasks :
        status[t] = 200 =>
            \A i \in 1..Len(upload_req[t].files) :
                \A j \in 1..Len(upload_req[t].files) :
                    (i # j /\ request_tuple(t, i) # request_tuple(t, j))
                        => r2_keys[t][i] # r2_keys[t][j]

\* ------------------------------------------------- generate_r2_key alone
MaxKeyPart == 2      \* longest project_id, lang or filename enumerated

KeyChars == {"a", "/", "\\"}
KeyParts == SeqsUpTo(KeyChars, MaxKeyPart)

InitKey ==
    /\ NoUploads
    /\ call \in {[op |-> "generate_r2_key", project_id |-> pr, lang |-> l,
                  filename |-> f, returned |-> FALSE, key |-> <<>>] :
                    pr \in KeyParts, l \in KeyParts, f \in KeyParts}

GenerateKey ==
    /\ call.op = "generate_r2_key"
    /\ ~call.returned
    /\ call' = [call EXCEPT
                  !.returned = TRUE,
                  !.key = generate_r2_key(call.project_id, call.lang, call.filename)]
    /\ UNCHANGED uploads

NextKey == GenerateKey

SpecKey == InitKey /\ [][NextKey]_vars

\* C12 (as claimed): the key generate_r2_key derives from a project, a
\* language and a filename contains neither '/' nor '\'.
C12_KeyHasNoSeparator ==
    (call.op = "generate_r2_key" /\ call.returned) =>
        \A i \in 1..Len(call.key) : call.key[i] \notin {"/", "\\"}

\* ------------------------------------------ batch_validate_translations
MaxRecords == 2      \* longest list of translations enumerated

None == [some |-> FALSE]
Some(x) == [some |-> TRUE, value |-> x]

TranslationToValidate(id, key, source_hash) ==
    [id |-> id, key |-> key, source_hash |-> source_hash]

ValidationResult(id, is_valid, reason) ==
    [id |-> id, is_valid |-> is_valid, reason |-> reason]

\* mutant: the record's own tracking is looked at before the source index
validate_tracking_first(translation, source_hashes) ==
    IF ~translation.source_hash.some
    THEN ValidationResult(translation.id, FALSE,
                          Some("Translation missing source tracking"))
    ELSE IF translation.key \notin DOMAIN source_hashes
    THEN ValidationResult(translation.id, FALSE,
                          Some("Key no longer exists in source"))
    ELSE IF translation.source_hash.value # source_hashes[translation.key]
    THEN ValidationResult(translation.id, FALSE, Some("Source value changed"))
    ELSE ValidationResult(translation.id, TRUE, None)

\* the closure of batch_validate_translations: the two nested matches
validate(translation, source_hashes) ==
    IF translation.key \notin DOMAIN source_hashes
    THEN ValidationResult(translation.id, FALSE,
                          Some("Key no longer exists in source"))
    ELSE LET current_hash == source_hashes[translation.key] IN
         IF ~translation.source_hash.some
         THEN ValidationResult(translation.id, FALSE,
                               Some("Translation missing source tracking"))
         ELSE IF translation.source_hash.value # current_hash
              THEN ValidationResult(translation.id, FALSE,
                                    Some("Source value changed"))
              ELSE ValidationResult(translation.id, TRUE, None)

\* translations.iter().map(..).collect()
RECURSIVE batch_validate_translations(_, _)
batch_validate_translations(translations, source_hashes) ==
    IF translations = <<>> THEN <<>>
    ELSE <<validate(Head(translations), source_hashes)>>
            \o batch_validate_translations(Tail(translations), source_hashes)

TranslationIds == {"t1", "t2"}
SourceKeys == {"key1", "key2"}
SourceHashes == {"hash1", "hash2"}

Translations ==
    {TranslationToValidate(id, key, h) :
        id \in TranslationIds, key \in SourceKeys,
        h \in {None} \cup {Some(x) : x \in SourceHashes}}

\* HashMap<String, String>: a function on the keys the source still has
SourceIndexes == UNION {[ks -> SourceHashes] : ks \in SUBSET SourceKeys}

InitValidate ==
    /\ NoUploads
    /\ call \in {[op |-> "validate", translations |-> ts, source_hashes |-> sh,
                  returned |-> FALSE, results |-> <<>>] :
                    ts \in SeqsUpTo(Translations, MaxRecords),
                    sh \in SourceIndexes}

Validate ==
    /\ call.op = "validate"
    /\ ~call.returned
    /\ call' = [call EXCEPT
                  !.returned = TRUE,
                  !.results = batch_validate_translations(call.translations,
                                                          call.source_hashes)]
    /\ UNCHANGED uploads

NextValidate == Validate

SpecValidate == InitValidate /\ [][NextValidate]_vars

\* the outcome the decision table gives a record
table_valid(record, source_index) ==
    /\ record.key \in DOMAIN source_index
    /\ record.source_hash.some
    /\ record.source_hash.value = source_index[record.key]

table_reason(record, source_index) ==
    CASE record.key \notin DOMAIN source_index
            -> "Key no longer exists in source"
      [] record.key \in DOMAIN source_index /\ ~record.source_hash.some
            -> "Translation missing source tracking"
      [] OTHER -> "Source value changed"

\* C13: batch_validate_translations returns one outcome per record, in input
\* order and with the record's id, decided by the table alone: key absent
\* (fingerprint recorded or not), no recorded fingerprint, fingerprints
\* different, fingerprints equal.
C13_DecisionTable ==
    (call.op = "validate" /\ call.returned) =>
        /\ Len(call.results) = Len(call.translations)
        /\ \A i \in 1..Len(call.translations) :
               LET record == call.translations[i]
                   outcome == call.results[i]
               IN /\ outcome.id = record.id
                  /\ outcome.is_valid = table_valid(record, call.source_hashes)
                  /\ IF outcome.is_valid
                     THEN ~outcome.reason.some
                     ELSE /\ outcome.reason.some
                          /\ outcome.reason.value =
                                 table_reason(record, call.source_hashes)

\* a record whose key left the source and that has no fingerprint follows a
\* valid one
C13_Witness ==
    /\ call.op = "validate"
    /\ call.returned
    /\ Len(call.translations) = 2
    /\ call.results[1].is_valid
    /\ ~call.translations[2].source_hash.some
    /\ call.translations[2].key \notin DOMAIN call.source_hashes
    /\ call.results[2].reason = Some("Key no longer exists in source")

\* ------------------------------------------------------------ sort_items
MaxItems == 3        \* longest list enumerated in full
SortCalls == 2       \* sort requests applied to one list, one after another

\* serde_json::Value of the sort field.  A string is the sequence of its
\* code points; an integer is hi * 2^53 + lo, so that integers on both
\* sides of the 53-bit mantissa of an f64 are present.
Str(s) == [type |-> "String", s |-> s]
Num(hi, lo) == [type |-> "Number", hi |-> hi, lo |-> lo]
Bool(b) == [type |-> "Bool", b |-> b]
NullValue == [type |-> "Null"]

Less == "Less"
Equal == "Equal"
Greater == "Greater"

reverse(ordering) ==
    CASE ordering = Less -> Greater
      [] ordering = Greater -> Less
      [] OTHER -> Equal

int_cmp(a, b) == IF a < b THEN Less ELSE IF a > b THEN Greater ELSE Equal

\* str::cmp: byte-wise, which for UTF-8 is the order of the code points
RECURSIVE str_cmp(_, _)
str_cmp(a, b) ==
    IF a = <<>> THEN (IF b = <<>> THEN Equal ELSE Less)
    ELSE IF b = <<>> THEN Greater
    ELSE IF Head(a) # Head(b) THEN int_cmp(Head(a), Head(b))
    ELSE str_cmp(Tail(a), Tail(b))

bool_cmp(a, b) == int_cmp(IF a THEN 1 ELSE 0, IF b THEN 1 ELSE 0)

\* the numeric order of two integers
num_cmp(a, b) == IF a.hi # b.hi THEN int_cmp(a.hi, b.hi) ELSE int_cmp(a.lo, b.lo)

\* Number::as_f64 of an integer: exact up to 2^53, above it the nearest
\* multiple of two, a tie going to the even mantissa
as_f64(n) ==
    IF n.hi = 0 THEN n
    ELSE LET q == n.lo \div 2 IN
         IF n.lo % 2 = 0 THEN n
         ELSE IF q % 2 = 0 THEN Num(n.hi, 2 * q)
         ELSE Num(n.hi, 2 * q + 2)

\* a[sort_by]: Value::Null when the record has no such field
index_field(item, sort_by) ==
    IF sort_by \in DOMAIN item THEN item[sort_by] ELSE NullValue

comparison(a, b, sort_by) ==
    LET a_val == index_field(a, sort_by)
        b_val == index_field(b, sort_by)
    IN CASE a_val.type = "String" /\ b_val.type = "String"
                -> str_cmp(a_val.s, b_val.s)
         [] a_val.type = "Number" /\ b_val.type = "Number"
                -> num_cmp(as_f64(a_val), as_f64(b_val))
         [] a_val.type = "Bool" /\ b_val.type = "Bool"
                -> bool_cmp(a_val.b, b_val.b)
         [] OTHER -> Equal

\* mutant: the order string is ignored
compare_ascending_only(a, b, sort_by, order) == comparison(a, b, sort_by)

\* the closure handed to sort_by
compare(a, b, sort_by, order) ==
    IF order = "desc" THEN reverse(comparison(a, b, sort_by))
    ELSE comparison(a, b, sort_by)

is_less(a, b, sort_by, order) == compare(a, b, sort_by, order) = Less

\* slice::sort_by of the standard library.  Up to MAX_INSERTION elements it
\* is an insertion sort; a longer slice is cut into its natural runs (a
\* strictly descending run reversed, a run shorter than MIN_RUN extended by
\* insertion) and the runs are merged, forwards when the left run is not
\* the longer one and backwards otherwise.  The one long list below,
\* RunList, has two runs, so the order of the merges is not in question.
MAX_INSERTION == 20
MIN_RUN == 10

Front(s) == SubSeq(s, 1, Len(s) - 1)
Last(s) == s[Len(s)]
Min(a, b) == IF a < b THEN a ELSE b
Max(a, b) == IF a > b THEN a ELSE b

RECURSIVE Rev(_)
Rev(s) == IF s = <<>> THEN <<>> ELSE Append(Rev(Tail(s)), Head(s))

RECURSIVE insert_tail(_, _, _, _)
insert_tail(sorted, x, sort_by, order) ==
    IF sorted = <<>> \/ ~is_less(x, Last(sorted), sort_by, order)
    THEN Append(sorted, x)
    ELSE Append(insert_tail(Front(sorted), x, sort_by, order), Last(sorted))

RECURSIVE insertion_sort_shift_left(_, _, _, _)
insertion_sort_shift_left(v, offset, sort_by, order) ==
    IF offset >= Len(v) THEN v
    ELSE insertion_sort_shift_left(
             insert_tail(SubSeq(v, 1, offset), v[offset + 1], sort_by, order)
                 \o SubSeq(v, offset + 2, Len(v)),
             offset + 1, sort_by, order)

RECURSIVE streak_end(_, _, _, _, _)
streak_end(v, end, reversed, sort_by, order) ==
    IF end < Len(v) /\ (is_less(v[end + 1], v[end], sort_by, order) = reversed)
    THEN streak_end(v, end + 1, reversed, sort_by, order)
    ELSE end

find_streak(v, sort_by, order) ==
    IF Len(v) < 2 THEN [end |-> Len(v), was_reversed |-> FALSE]
    ELSE LET assume_reverse == is_less(v[2], v[1], sort_by, order)
         IN [end |-> streak_end(v, 2, assume_reverse, sort_by, order),
             was_reversed |-> assume_reverse]

\* the first run of v, sorted, and its length
first_run(v, sort_by, order) ==
    LET streak == find_streak(v, sort_by, order)
        natural == IF streak.was_reversed
                   THEN Rev(SubSeq(v, 1, streak.end))
                   ELSE SubSeq(v, 1, streak.end)
        end == IF streak.end < MIN_RUN /\ streak.end < Len(v)
               THEN Min(MIN_RUN, Len(v)) ELSE streak.end
    IN [run |-> insertion_sort_shift_left(
                    natural \o SubSeq(v, streak.end + 1, end),
                    Max(streak.end, 1), sort_by, order),
        end |-> end]

RECURSIVE merge_up(_, _, _, _)
merge_up(left, right, sort_by, order) ==
    IF left = <<>> THEN right
    ELSE IF right = <<>> THEN left
    ELSE IF is_less(Head(right), Head(left), sort_by, order)
    THEN <<Head(right)>> \o merge_up(left, Tail(right), sort_by, order)
    ELSE <<Head(left)>> \o merge_up(Tail(left), right, sort_by, order)

RECURSIVE merge_down(_, _, _, _)
merge_down(left, right, sort_by, order) ==
    IF left = <<>> THEN right
    ELSE IF right = <<>> THEN left
    ELSE IF is_less(Last(right), Last(left), sort_by, order)
    THEN Append(merge_down(Front(left), right, sort_by, order), Last(left))
    ELSE Append(merge_down(left, Front(right), sort_by, order), Last(right))

merge(left, right, sort_by, order) ==
    IF Len(left) <= Len(right) THEN merge_up(left, right, sort_by, order)
    ELSE merge_down(left, right, sort_by, order)

RECURSIVE merge_sort(_, _, _, _)
merge_sort(sorted, v, sort_by, order) ==
    IF v = <<>> THEN sorted
    ELSE LET first == first_run(v, sort_by, order)
         IN merge_sort(merge(sorted, first.run, sort_by, order),
                       SubSeq(v, first.end + 1, Len(v)), sort_by, order)

sort_by_slice(v, sort_by, order) ==
    IF Len(v) <= MAX_INSERTION
    THEN insertion_sort_shift_left(v, 1, sort_by, order)
    ELSE merge_sort(<<>>, v, sort_by, order)

sort_items(items, sort_by, order) == sort_by_slice(items, sort_by, order)

\* inputs
StrA == <<97>>               \* "a"
StrAB == <<97, 98>>          \* "ab"
FieldValues ==
    {Str(StrA), Str(StrAB), Num(0, 1), Num(0, 2), Num(1, 0), Num(1, 1),
     Bool(FALSE), Bool(TRUE), NullValue}

\* records {"k": value, "id": position}; NullValue stands for a record without "k"
Items(values) ==
    [i \in 1..Len(values) |->
        IF values[i] = NullValue THEN [id |-> Num(0, i)]
        ELSE [k |-> values[i], id |-> Num(0, i)]]

\* 22 records in two runs of 11: "ab", nine 1s, "ab", then eleven "a"
RunList ==
    <<Str(StrAB)>> \o [i \in 1..9 |-> Num(0, 1)] \o <<Str(StrAB)>>
        \o [i \in 1..11 |-> Str(StrA)]

ItemLists == {Items(vs) : vs \in SeqsUpTo(FieldValues, MaxItems) \cup {RunList}}

Orders == {"asc", "desc", "ascending"}

InitSort ==
    /\ NoUploads
    /\ call \in {[op |-> "sort", input |-> items, sort_by |-> "k",
                  orders |-> <<>>, before |-> items, items |-> items] :
                    items \in ItemLists}

\* one /sort request on the list the previous one returned
Sort(order) ==
    /\ call.op = "sort"
    /\ Len(call.orders) < SortCalls
    /\ call' = [call EXCEPT
                  !.orders = Append(@, order),
                  !.before = call.items,
                  !.items = sort_items(call.items, call.sort_by, order)]
    /\ UNCHANGED uploads

NextSort == \E order \in Orders : Sort(order)

SpecSort == InitSort /\ [][NextSort]_vars

sorted_once == call.op = "sort" /\ Len(call.orders) >= 1
last_order == call.orders[Len(call.orders)]
asc_then_desc == call.op = "sort" /\ call.orders = <<"asc", "desc">>

\* the position of a record in a list of distinct records
position(items, item) == CHOOSE i \in 1..Len(items) : items[i] = item

\* no two records of the list compare equal on the field
strictly_ordered(items, sort_by) ==
    \A i \in 1..Len(items) : \A j \in 1..Len(items) :
        i # j => comparison(items[i], items[j], sort_by) # Equal

C15_Stable ==
    sorted_once =>
        /\ Len(call.items) = Len(call.before)
        /\ \A i \in 1..Len(call.before) :
               \E j \in 1..Len(call.items) : call.items[j] = call.before[i]
        /\ \A i \in 1..Len(call.before) : \A j \in 1..Len(call.before) :
               (i < j /\ comparison(call.before[i], call.before[j],
                                    call.sort_by) = Equal)
                   => position(call.items, call.before[i])
                          < position(call.items, call.before[j])

\* all records hold a string, all a number or all a boolean in the field
same_type(items, sort_by) ==
    \E type \in {"String", "Number", "Bool"} :
        \A i \in 1..Len(items) : index_field(items[i], sort_by).type = type

\* the order the values have by themselves: numbers by numeric value
value_cmp(a, b) ==
    CASE a.type = "String" -> str_cmp(a.s, b.s)
      [] a.type = "Number" -> num_cmp(a, b)
      [] OTHER -> bool_cmp(a.b, b.b)

\* C16: on a list whose records all hold one type in the field, "desc"
\* leaves the list non-increasing and every other order string leaves it
\* non-decreasing, numbers being ordered by numeric value.
C16_SameTypeSorted ==
    (sorted_once /\ same_type(call.before, call.sort_by)) =>
        \A i \in 1..(Len(call.items) - 1) :
            LET here == index_field(call.items[i], call.sort_by)
                next == index_field(call.items[i + 1], call.sort_by)
            IN IF last_order = "desc"
               THEN value_cmp(here, next) # Less
               ELSE value_cmp(here, next) # Greater

\* ------------------------------------------- hash_value, batch_hash_values
MaxValues == 3       \* longest list of values enumerated

\* hex::encode(Sha256 of value.as_bytes()): the 64 hex digits of the digest,
\* tabulated for the values enumerated
sha256_hex(value) ==
    CASE value = "" ->
          <<"e", "3", "b", "0", "c", "4", "4", "2", "9", "8", "f", "c", "1", "c", "1", "4",
            "9", "a", "f", "b", "f", "4", "c", "8", "9", "9", "6", "f", "b", "9", "2", "4",
            "2", "7", "a", "e", "4", "1", "e", "4", "6", "4", "9", "b", "9", "3", "4", "c",
            "a", "4", "9", "5", "9", "9", "1", "b", "7", "8", "5", "2", "b", "8", "5", "5">>
      [] value = "value1" ->
          <<"3", "c", "9", "6", "8", "3", "0", "1", "7", "f", "9", "e", "4", "b", "f", "3",
            "3", "d", "0", "f", "b", "e", "d", "d", "2", "6", "b", "f", "1", "4", "3", "f",
            "d", "7", "2", "d", "e", "9", "b", "9", "d", "d", "1", "4", "5", "4", "4", "1",
            "b", "7", "5", "f", "0", "6", "0", "4", "0", "4", "7", "e", "a", "2", "8", "e">>
      [] value = "value2" ->
          <<"0", "5", "3", "7", "d", "4", "8", "1", "f", "7", "3", "a", "7", "5", "7", "3",
            "3", "4", "3", "2", "8", "0", "5", "2", "d", "a", "3", "a", "f", "9", "6", "2",
            "6", "c", "e", "d", "9", "7", "0", "2", "8", "e", "2", "0", "b", "8", "4", "9",
            "f", "6", "1", "1", "5", "c", "2", "2", "c", "d", "7", "6", "5", "1", "9", "7">>
      [] value = "Hello, World!" ->
          <<"d", "f", "f", "d", "6", "0", "2", "1", "b", "b", "2", "b", "d", "5", "b", "0",
            "a", "f", "6", "7", "6", "2", "9", "0", "8", "0", "9", "e", "c", "3", "a", "5",
            "3", "1", "9", "1", "d", "d", "8", "1", "c", "7", "f", "7", "0", "a", "4", "b",
            "2", "8", "6", "8", "8", "a", "3", "6", "2", "1", "8", "2", "9", "8", "6", "f">>

\* mutant: the whole digest, not its first 16 digits
hash_value_full(value) == sha256_hex(value)

\* hex_string[..16]
hash_value(value) == SubSeq(sha256_hex(value), 1, 16)

\* values.iter().map(|v| hash_value(v)).collect()
RECURSIVE batch_hash_values(_)
batch_hash_values(values) ==
    IF values = <<>> THEN <<>>
    ELSE <<hash_value(Head(values))>> \o batch_hash_values(Tail(values))

HashValues == {"", "value1", "value2", "Hello, World!"}

InitHash ==
    /\ NoUploads
    /\ call \in {[op |-> "hash", values |-> values, returned |-> FALSE,
                  hashes |-> <<>>] : values \in SeqsUpTo(HashValues, MaxValues)}

Hash ==
    /\ call.op = "hash"
    /\ ~call.returned
    /\ call' = [call EXCEPT !.returned = TRUE,
                            !.hashes = batch_hash_values(call.values)]
    /\ UNCHANGED uploads

NextHash == Hash

SpecHash == InitHash /\ [][NextHash]_vars

\* C17: batch_hash_values returns as many fingerprints as it was given
\* values, the i-th being hash_value of the i-th value; equal values get
\* equal fingerprints, and every fingerprint, that of the empty string
\* included, has 16 characters.
C17_BatchIsElementwise ==
    (call.op = "hash" /\ call.returned) =>
        /\ Len(call.hashes) = Len(call.values)
        /\ \A i \in 1..Len(call.values) :
               /\ call.hashes[i] = hash_value(call.values[i])
               /\ Len(call.hashes[i]) = 16
               /\ \A j \in 1..Len(call.values) :
                      call.values[i] = call.values[j]
                          => call.hashes[i] = call.hashes[j]

\* a batch with the empty string and one value twice
C17_Witness ==
    /\ call.op = "hash"
    /\ call.returned
    /\ call.values = <<"value1", "", "value1">>
    /\ call.hashes[1] # call.hashes[2]

\* ------------------------------------ claims on ingest, continued
\* C18: a file without a pre-packed payload is counted by its content field
\* whatever the JSON type of the field: a request with such a file whose
\* serialized content is over 5 MiB (and with no malformed file) is
\* answered 413, also when the content is an array or a string.
C18_ContentBytesCounted ==
    \A t \in Tasks :
        (/\ pc[t] # "idle"
         /\ ~has_malformed(upload_req[t].files)
         /\ \E i \in 1..Len(upload_req[t].files) :
                /\ ~upload_req[t].files[i].packed_data.some
                /\ upload_req[t].files[i].contents.ser > MAX_BYTES_PER_FILE)
            => (pc[t] = "done" /\ status[t] = 413)

\* requests handled one after another: a request is received only when no
\* other is between its pre-flight and its response
ReceiveSequential(t, r) ==
    /\ \A u \in Tasks : pc[u] \in {"idle", "done"}
    /\ Receive(t, r)

NextSequential ==
    \E t \in Tasks :
        \/ \E r \in Requests : ReceiveSequential(t, r)
        \/ PutOk(t)
        \/ PutFail(t)
        \/ UpsertOk(t)
        \/ UpsertFail(t)

SpecSequential == Init /\ [][NextSequential]_vars

all_succeeded == \A t \in Tasks : pc[t] = "idle" \/ (pc[t] = "done" /\ status[t] = 200)

\* C19: after requests that ran one after another and all succeeded, the
\* object stored under the storage key of every index row carries the
\* row's commit reference and source fingerprint in its metadata.
C19_IndexAgreesWithObject ==
    all_succeeded =>
        \A row \in index :
            /\ row.r2_key \in DOMAIN bucket
            /\ bucket[row.r2_key].custom_meta.commitSha = row.commit_sha
            /\ bucket[row.r2_key].custom_meta.sourceHash = row.source_hash

in_request(t, row) ==
    \E i \in 1..Len(upload_req[t].files) : request_tuple(t, i) = tuple_of(row)

\* C20: when two requests for one tuple with different commit references
\* have both succeeded, however they interleaved, the row of the tuple and
\* the object under its storage key carry the same commit reference.
C20_RowAndObjectFromOneRequest ==
    (/\ \A t \in Tasks : pc[t] = "done" /\ status[t] = 200
     /\ upload_req[1].commit_sha # upload_req[2].commit_sha) =>
        \A row \in index :
            (in_request(1, row) /\ in_request(2, row)) =>
                bucket[row.r2_key].custom_meta.commitSha = row.commit_sha

\* ------------------------------------------- the bytes put to the store
\* the length of a MessagePack string of n bytes: header and text
rmp_str(n) ==
    IF n < 32 THEN 1 + n
    ELSE IF n < 256 THEN 2 + n
    ELSE IF n < 65536 THEN 3 + n
    ELSE 5 + n

\* the byte length of the strings the requests carry
text_len(s) == IF s = "meta" THEN 4 ELSE 2

\* rmp_serde::to_vec of a content value, tabulated for the contents
\* enumerated: {"a":"A","b":"B"}; {}; the objects {"0":"x",...} of 10,000
\* and 10,001 members; {"k":"x...x"} of 5 MiB and of one byte more as JSON
\* (a str32 of 5 MiB - 8 text bytes: 1 + 2 + 5 + text, the JSON length
\* again); three strings in an array, 6 MiB as JSON
rmp_len(v) ==
    CASE v = SmallObject -> 9
      [] v = EmptyObject -> 1
      [] v = KeysAtLimit -> 68893
      [] v = KeysOver -> 68901
      [] v = BytesAtLimit -> MAX_BYTES_PER_FILE
      [] v = BytesOver -> MAX_BYTES_PER_FILE + 1
      [] v = BigArray -> 6 * MiB + 6

\* now.to_rfc3339() at its shortest, "2024-01-01T00:00:00+00:00"
Rfc3339MinLen == 25

\* data_to_store.len(): the decoded bytes of packed_data, else the
\* MessagePack of the five-member map json! builds, with uploadedAt at its
\* shortest
data_len(data) ==
    IF data.packed THEN data.bytes
    ELSE 1 + rmp_str(3) + rmp_len(data.raw)
           + rmp_str(14) + rmp_str(text_len(data.metadataBase64))
           + rmp_str(10) + rmp_str(text_len(data.sourceHash))
           + rmp_str(9) + rmp_str(text_len(data.commitSha))
           + rmp_str(10) + rmp_str(Rfc3339MinLen)

\* the bytes task t has put for its first n files
RECURSIVE put_bytes(_, _)
put_bytes(t, n) ==
    IF n = 0 THEN 0
    ELSE put_bytes(t, n - 1)
           + data_len(data_to_store(upload_req[t].files[n],
                                    upload_req[t].commit_sha, now[t]))

\* C21: for a request that passed the pre-flight checks, every object put
\* to the store has at most 5 MiB and the objects of the batch together at
\* most 50 MiB, whether stored from pre-packed bytes or packed on the
\* server.
C21_StoredWithinQuota ==
    /\ \A key \in DOMAIN bucket :
           data_len(bucket[key].data) <= MAX_BYTES_PER_FILE
    /\ \A t \in Tasks :
           (pc[t] # "idle" /\ status[t] \notin {400, 413}) =>
               /\ \A i \in 1..Len(r2_keys[t]) :
                      put_bytes(t, i) - put_bytes(t, i - 1) <= MAX_BYTES_PER_FILE
               /\ put_bytes(t, Len(r2_keys[t])) <= MAX_TOTAL_BYTES

====
